---- MODULE Spec2Model ----
(***************************************************************************)
(* A model of synapse's replication resource (synapse/replication/         *)
(* resource.py) and of the event-stream presence bookkeeping of            *)
(* EventStreamHandler (synapse/handlers/events.py).                        *)
(*                                                                         *)
(* Strings that the code parses or formats (the "streams" token) are       *)
(* sequences of one-character strings, so that split/int/join are computed *)
(* as Python computes them.  Names of streams and fields are TLA+ strings. *)
(***************************************************************************)
EXTENDS Integers, Sequences, FiniteSets, TLC

(***************************************************************************)
(* Bounds of the model.                                                    *)
(***************************************************************************)
\* writes committed to the streams during one behaviour
MaxWrites == 2
\* replication requests waiting at once when several wait
MaxWaiters == 2
\* handler operations recorded per user
MaxOps == 4
\* the latest time the clock reaches
MaxClock == 61
\* single time units the clock advances between two grace delays
MaxDrift == 1

(***************************************************************************)
(* Program constants.                                                      *)
(***************************************************************************)
\* self.clock.call_later(30, _later)
GraceDelay == 30

(***************************************************************************)
(* Python helpers: str(int), int(str), str.split, str.join.                *)
(***************************************************************************)
Digits == <<"0", "1", "2", "3", "4", "5", "6", "7", "8", "9">>

RECURSIVE NatToStr(_)
NatToStr(n) ==
    IF n < 10 THEN <<Digits[n + 1]>>
    ELSE NatToStr(n \div 10) \o <<Digits[(n % 10) + 1]>>

\* str(value) of an integer
str(n) == IF n < 0 THEN <<"-">> \o NatToStr(-n) ELSE NatToStr(n)

IsDigit(c) == \E i \in 1..10 : Digits[i] = c

DigitVal(c) == (CHOOSE i \in 1..10 : Digits[i] = c) - 1

RECURSIVE NatVal(_)
NatVal(s) ==
    IF Len(s) = 0 THEN 0
    ELSE 10 * NatVal(SubSeq(s, 1, Len(s) - 1)) + DigitVal(s[Len(s)])

AllDigits(s) == Len(s) > 0 /\ \A i \in 1..Len(s) : IsDigit(s[i])

\* whether int(s) returns (TRUE) or raises ValueError (FALSE)
IsInt(s) ==
    \/ AllDigits(s)
    \/ Len(s) > 1 /\ s[1] \in {"-", "+"} /\ AllDigits(Tail(s))

\* int(s) for a string int() accepts
int(s) ==
    IF s[1] = "-" THEN 0 - NatVal(Tail(s))
    ELSE IF s[1] = "+" THEN NatVal(Tail(s))
    ELSE NatVal(s)

\* s.split(sep) for a one-character separator: always at least one piece
split(s, sep) ==
    LET at == {i \in 1..Len(s) : s[i] = sep}
        \* where the j-th separator stands; 0 and Len(s) + 1 bound the string
        nth(j) == IF j = 0 THEN 0
                  ELSE IF j > Cardinality(at) THEN Len(s) + 1
                  ELSE CHOOSE i \in at : Cardinality({k \in at : k < i}) = j - 1
    IN  [j \in 1..(Cardinality(at) + 1) |->
            SubSeq(s, nth(j - 1) + 1, nth(j) - 1)]

\* sep.join(parts)
join(sep, parts) ==
    LET RECURSIVE from(_)
        from(i) == IF i > Len(parts) THEN <<>>
                   ELSE IF i = Len(parts) THEN parts[i]
                   ELSE parts[i] \o <<sep>> \o from(i + 1)
    IN  from(1)

\* [str(value) for value in seq]
strs(seq) == [i \in 1..Len(seq) |-> str(seq[i])]

\* [int(piece) for piece in seq]
ints(seq) == [i \in 1..Len(seq) |-> int(seq[i])]

\* zip(a, b, c): truncated to the shortest argument
Min3(a, b, c) ==
    IF a <= b /\ a <= c THEN a ELSE IF b <= c THEN b ELSE c

zip3(a, b, c) ==
    [i \in 1..Min3(Len(a), Len(b), Len(c)) |-> <<a[i], b[i], c[i]>>]

(***************************************************************************)
(* The replication token and the stream names.                             *)
(***************************************************************************)
\* fields of the named tuple _ReplicationToken, in order
TokenFields ==
    <<"events", "presence", "typing", "receipts", "account_data", "backfill">>

\* STREAM_NAMES with the account data entry naming one stream only
STREAM_NAMES_one_account_data ==
    << <<"events">>,
       <<"presence">>,
       <<"typing">>,
       <<"receipts">>,
       <<"user_account_data">>,
       <<"backfill">> >>

STREAM_NAMES ==
    << <<"events">>,
       <<"presence">>,
       <<"typing">>,
       <<"receipts">>,
       <<"user_account_data", "room_account_data", "tag_account_data">>,
       <<"backfill">> >>

\* every name a "since" query parameter may carry
Names ==
    {"events", "presence", "typing", "receipts", "user_account_data",
     "room_account_data", "tag_account_data", "backfill"}

\* token.<field>
Field(token, name) ==
    token[CHOOSE i \in 1..Len(TokenFields) : TokenFields[i] = name]

\* a token with "_" between the fields, as the streams batch writes its
\* stream_id
token_str_underscore(token) == join("_", strs(token))

\* _ReplicationToken.__str__
token_str(token) == join("/", strs(token))

(***************************************************************************)
(* _Writer.  A writer is a record: out, the rows passed to write_row so    *)
(* far (a header row is a row); sep, the separator the next row gets;      *)
(* total; tail, what finish wrote; finished, the calls of request.finish.  *)
(***************************************************************************)
NewWriter == [out |-> <<>>, sep |-> "[[", total |-> 0, tail |-> "", finished |-> 0]

write_row(w, row) ==
    [w EXCEPT !.out = Append(@, row), !.sep = "]\n,["]

write_header(w, name, stream_id, count, fields) ==
    write_row(w, <<name, stream_id, count, Len(fields)>> \o fields)

\* for row in rows: self.write_row(row)
write_rows(w, rows) ==
    LET RECURSIVE upto(_)
        upto(n) == IF n = 0 THEN w ELSE write_row(upto(n - 1), rows[n])
    IN  upto(Len(rows))

\* write_header_and_rows taking the position of the first row, not the last
write_header_and_rows_first_row(w, name, rows, fields, stream_id) ==
    IF Len(rows) = 0 THEN w
    ELSE LET sid == IF Len(stream_id) = 0 THEN rows[1][1] ELSE stream_id[1]
             w1  == write_header(w, name, sid, Len(rows), fields)
             w2  == write_rows(w1, rows)
         IN  [w2 EXCEPT !.total = @ + Len(rows)]

\* write_header_and_rows announcing one row more than it writes
write_header_and_rows_miscounted(w, name, rows, fields, stream_id) ==
    IF Len(rows) = 0 THEN w
    ELSE LET sid == IF Len(stream_id) = 0 THEN rows[Len(rows)][1]
                    ELSE stream_id[1]
             w1  == write_header(w, name, sid, Len(rows) + 1, fields)
             w2  == write_rows(w1, rows)
         IN  [w2 EXCEPT !.total = @ + Len(rows)]

\* stream_id is <<>> for the default None, <<x>> for stream_id=x
write_header_and_rows(w, name, rows, fields, stream_id) ==
    IF Len(rows) = 0 THEN w
    ELSE LET sid == IF Len(stream_id) = 0 THEN rows[Len(rows)][1]
                    ELSE stream_id[1]
             w1  == write_header(w, name, sid, Len(rows), fields)
             w2  == write_rows(w1, rows)
         IN  [w2 EXCEPT !.total = @ + Len(rows)]

\* finish writing the closing bytes without finishing the request
finish_without_request_finish(w) ==
    [w EXCEPT !.tail = IF w.sep = "[[" THEN "[]" ELSE "]\n]"]

finish(w) ==
    [w EXCEPT !.tail = IF w.sep = "[[" THEN "[]" ELSE "]\n]",
              !.finished = @ + 1]

(***************************************************************************)
(* State.                                                                  *)
(***************************************************************************)
VARIABLES
    stream_pos,   \* current position of every token field (the stream-owning
                  \* writers' counters)
    store_rows,   \* per stream name, the positions that hold a row
    pc,           \* per request, where _async_render_GET stands
    req,          \* per request, its query parameters
    tok,          \* per request, current_token of the running replicate pass
    writer,       \* per request, its _Writer
    timer,        \* per request, the timeout timer of wait_for_replication
    woken,        \* per request, a new-data signal arrived since the pass began
    calls,        \* per request, the fetches the last replicate pass issued
    passes,       \* per request, the replicate passes completed
    client,       \* the catch-up client of request slot 1: since0, the events
                  \* position of its first request; got, the events positions
                  \* it took from the responses before the current one
    _streams_per_user,     \* EventStreamHandler: count of active streams per user
    _stop_timer_per_user,  \* EventStreamHandler: grace timer per user
    delayed_calls,         \* the clock's scheduled calls (clock.call_later)
    now,                   \* the clock
    fired,                 \* per user, the signals the distributor fired
    history,               \* per user, the handler operations so far
    suspended,             \* per user, the started_stream calls waiting for
                           \* the started signal to be delivered
    token_io               \* the token a caller formats and parses back,
                           \* with the text and the parse result

repl_vars ==
    <<stream_pos, store_rows, pc, req, tok, writer, timer, woken, calls, passes>>

hs_vars ==
    <<_streams_per_user, _stop_timer_per_user, delayed_calls, now, fired, history,
      suspended>>

vars == <<repl_vars, client, hs_vars, token_io>>

\* request slots; the specifications with one request use slot 1
Reqs == 1..MaxWaiters

(***************************************************************************)
(* The store and the presence/typing handlers, by their contract: a fetch  *)
(* returns the rows with since < position <= until in ascending position   *)
(* order, cut to the first limit rows.  Backfill positions decrease from   *)
(* 0, so there the rows are those with until <= position < since, in       *)
(* descending order.  A row is its position followed by opaque fields.     *)
(***************************************************************************)
RECURSIVE SortAsc(_)
SortAsc(S) ==
    IF S = {} THEN <<>>
    ELSE LET m == CHOOSE x \in S : \A y \in S : x <= y
         IN  <<m>> \o SortAsc(S \ {m})

RECURSIVE SortDesc(_)
SortDesc(S) ==
    IF S = {} THEN <<>>
    ELSE LET m == CHOOSE x \in S : \A y \in S : x >= y
         IN  <<m>> \o SortDesc(S \ {m})

Take(seq, n) ==
    IF n <= 0 THEN <<>> ELSE SubSeq(seq, 1, IF n < Len(seq) THEN n ELSE Len(seq))

RowWidth(name) ==
    CASE name \in {"events", "backfill", "presence", "typing"} -> 3
      [] name \in {"user_account_data", "tag_account_data"} -> 4
      [] name = "room_account_data" -> 5
      [] name = "receipts" -> 6

RowOf(name, p) == <<p>> \o [i \in 1..(RowWidth(name) - 1) |-> "-"]

RowsOf(name, ps) == [i \in 1..Len(ps) |-> RowOf(name, ps[i])]

fetch_delta(name, since, until, limit) ==
    LET ps == SortAsc({p \in store_rows[name] : since < p /\ p <= until})
    IN  RowsOf(name, Take(ps, limit))

fetch_backward(name, since, until, limit) ==
    LET ps == SortDesc({p \in store_rows[name] : until <= p /\ p < since})
    IN  RowsOf(name, Take(ps, limit))

\* returns <<events_rows, backfill_rows>>
get_all_new_events(last_backfill, last_forward, current_backfill, current_forward, limit) ==
    << fetch_delta("events", last_forward, current_forward, limit),
       fetch_backward("backfill", last_backfill, current_backfill, limit) >>

get_all_presence_updates(last_id, current_id, limit) ==
    fetch_delta("presence", last_id, current_id, limit)

get_all_typing_updates(last_id, current_id, limit) ==
    fetch_delta("typing", last_id, current_id, limit)

get_all_updated_receipts(last_id, current_id, limit) ==
    fetch_delta("receipts", last_id, current_id, limit)

\* returns <<user_rows, room_rows>>
get_all_updated_account_data(last_global_id, last_room_id, current_id, limit) ==
    << fetch_delta("user_account_data", last_global_id, current_id, limit),
       fetch_delta("room_account_data", last_room_id, current_id, limit) >>

get_all_updated_tags(last_id, current_id, limit) ==
    fetch_delta("tag_account_data", last_id, current_id, limit)

(***************************************************************************)
(* ReplicationResource.  A request is a record: args, per name <<>> when   *)
(* the query parameter is absent and <<n>> when parse_integer gives n;     *)
(* streams, <<>> or <<s>> with s the string of the "streams" parameter;    *)
(* limit.  The per-stream methods take and return the state of the pass:   *)
(* w, the writer; calls, the fetches issued; err, the exception raised.    *)
(***************************************************************************)
Has(request, name) == Len(request.args[name]) > 0

parse_integer(request, name) == request.args[name][1]

current_replication_token ==
    << stream_pos["events"], stream_pos["presence"], stream_pos["typing"],
       stream_pos["receipts"], stream_pos["account_data"],
       stream_pos["backfill"] >>

Wrote(st, name, rows, fields) ==
    [st EXCEPT !.w = write_header_and_rows(@, name, rows, fields, <<>>)]

Called(st, call) == [st EXCEPT !.calls = Append(@, call)]

account_data(st, request, current_token, limit) ==
    LET current_stream_id == Field(current_token, "account_data")
        st1 ==
            IF Has(request, "user_account_data") \/ Has(request, "room_account_data")
            THEN LET user_account_data ==
                         IF Has(request, "user_account_data")
                         THEN parse_integer(request, "user_account_data")
                         ELSE current_stream_id
                     room_account_data ==
                         IF Has(request, "room_account_data")
                         THEN parse_integer(request, "room_account_data")
                         ELSE current_stream_id
                     got == get_all_updated_account_data(
                                user_account_data, room_account_data,
                                current_stream_id, limit)
                     c   == Called(st, <<"get_all_updated_account_data",
                                        user_account_data, room_account_data,
                                        current_stream_id, limit>>)
                     u   == Wrote(c, "user_account_data", got[1],
                                  <<"stream_id", "user_id", "type", "content">>)
                 IN  Wrote(u, "room_account_data", got[2],
                           <<"stream_id", "user_id", "room_id", "type", "content">>)
            ELSE st
    IN  IF Has(request, "tag_account_data")
        THEN LET tag_account_data == parse_integer(request, "tag_account_data")
                 tag_rows == get_all_updated_tags(
                                 tag_account_data, current_stream_id, limit)
                 c == Called(st1, <<"get_all_updated_tags", tag_account_data,
                                    current_stream_id, limit>>)
             IN  Wrote(c, "tag_account_data", tag_rows,
                       <<"stream_id", "user_id", "room_id", "tags">>)
        ELSE st1

\* events asking from position 0 for the stream that was not requested
events_default_from_zero(st, request, current_token, limit) ==
    IF Has(request, "events") \/ Has(request, "backfill")
    THEN LET request_events ==
                 IF Has(request, "events") THEN parse_integer(request, "events")
                 ELSE 0
             request_backfill ==
                 IF Has(request, "backfill") THEN parse_integer(request, "backfill")
                 ELSE 0
             got == get_all_new_events(
                        request_backfill, request_events,
                        Field(current_token, "backfill"),
                        Field(current_token, "events"), limit)
             c   == Called(st, <<"get_all_new_events", request_backfill,
                                request_events, Field(current_token, "backfill"),
                                Field(current_token, "events"), limit>>)
             e   == Wrote(c, "events", got[1], <<"stream_id", "internal", "json">>)
         IN  Wrote(e, "backfill", got[2], <<"stream_id", "internal", "json">>)
    ELSE st

events(st, request, current_token, limit) ==
    IF Has(request, "events") \/ Has(request, "backfill")
    THEN LET request_events ==
                 IF Has(request, "events") THEN parse_integer(request, "events")
                 ELSE Field(current_token, "events")
             request_backfill ==
                 IF Has(request, "backfill") THEN parse_integer(request, "backfill")
                 ELSE Field(current_token, "backfill")
             got == get_all_new_events(
                        request_backfill, request_events,
                        Field(current_token, "backfill"),
                        Field(current_token, "events"), limit)
             c   == Called(st, <<"get_all_new_events", request_backfill,
                                request_events, Field(current_token, "backfill"),
                                Field(current_token, "events"), limit>>)
             e   == Wrote(c, "events", got[1], <<"stream_id", "internal", "json">>)
         IN  Wrote(e, "backfill", got[2], <<"stream_id", "internal", "json">>)
    ELSE st

presence(st, request, current_token, limit) ==
    LET current_stream_id == Field(current_token, "presence")
    IN  IF Has(request, "presence")
        THEN LET request_presence == parse_integer(request, "presence")
                 presence_rows == get_all_presence_updates(
                                      request_presence, current_stream_id, limit)
                 c == Called(st, <<"get_all_presence_updates", request_presence,
                                   current_stream_id, limit>>)
             IN  Wrote(c, "presence", presence_rows,
                       <<"stream_id", "user_id", "status">>)
        ELSE st

typing(st, request, current_token, limit) ==
    LET current_stream_id == Field(current_token, "presence")
    IN  IF Has(request, "typing")
        THEN LET request_typing == parse_integer(request, "typing")
                 typing_rows == get_all_typing_updates(
                                    request_typing, current_stream_id, limit)
                 c == Called(st, <<"get_all_typing_updates", request_typing,
                                   current_stream_id, limit>>)
             IN  Wrote(c, "typing", typing_rows,
                       <<"stream_id", "room_id", "typing">>)
        ELSE st

receipts(st, request, current_token, limit) ==
    LET current_stream_id == Field(current_token, "receipts")
    IN  IF Has(request, "receipts")
        THEN LET request_receipts == parse_integer(request, "receipts")
                 receipts_rows == get_all_updated_receipts(
                                      request_receipts, current_stream_id, limit)
                 c == Called(st, <<"get_all_updated_receipts", request_receipts,
                                   current_stream_id, limit>>)
             IN  Wrote(c, "receipts", receipts_rows,
                       <<"stream_id", "room_id", "receipt_type", "user_id",
                         "event_id", "data">>)
        ELSE st

\* streams.extend((name, stream_id) for name in names)
NameRows(names, stream_id) == [j \in 1..Len(names) |-> <<names[j], stream_id>>]

zip2(a, b) ==
    [i \in 1..(IF Len(a) <= Len(b) THEN Len(a) ELSE Len(b)) |-> <<a[i], b[i]>>]

\* the loop of the "-1" branch over zip(STREAM_NAMES, current_token)
AllStreamRows(items) ==
    LET RECURSIVE from(_)
        from(i) == IF i > Len(items) THEN <<>>
                   ELSE NameRows(items[i][1], items[i][2]) \o from(i + 1)
    IN  from(1)

\* the test written with <= instead of <
slot_is_new_or_equal(last_id, current_id) == last_id <= current_id

\* the test that decides whether a token slot is reported
slot_is_new(last_id, current_id) == last_id < current_id

\* the loop of the else branch over zip(STREAM_NAMES, current_token, ints)
ChangedStreamRows(items) ==
    LET RECURSIVE from(_)
        from(i) == IF i > Len(items) THEN <<>>
                   ELSE (IF slot_is_new(items[i][3], items[i][2])
                         THEN NameRows(items[i][1], items[i][2]) ELSE <<>>)
                        \o from(i + 1)
    IN  from(1)

\* the stream_id of the streams batch
streams_stream_id(current_token) == join("_", strs(current_token))

streams(st, request, current_token) ==
    IF Len(request.streams) = 0 THEN st
    ELSE
      LET request_token == request.streams[1]
          pieces == split(request_token, "_")
      IN  IF request_token # <<"-", "1">>
             /\ \E i \in 1..Len(pieces) : ~IsInt(pieces[i])
          THEN [st EXCEPT !.err = "ValueError"]
          ELSE
            LET rows ==
                    IF request_token = <<"-", "1">>
                    THEN AllStreamRows(zip2(STREAM_NAMES, current_token))
                    ELSE ChangedStreamRows(
                             zip3(STREAM_NAMES, current_token, ints(pieces)))
            IN  IF Len(rows) > 0
                THEN [st EXCEPT !.w = write_header_and_rows(
                                          @, "streams", rows,
                                          <<"name", "stream_id">>,
                                          <<streams_stream_id(current_token)>>)]
                ELSE st

\* the value replicate returns to wait_for_replication
replicate_result(w) == w.total

\* a pass that replicates the events before the account data
replicate_events_first(w, request, current_token) ==
    LET limit == request.limit
        st0 == [w |-> w, calls |-> <<>>, err |-> "", result |-> 0]
        st1 == events(st0, request, current_token, limit)
        st2 == account_data(st1, request, current_token, limit)
        st3 == presence(st2, request, current_token, limit)
        st4 == typing(st3, request, current_token, limit)
        st5 == receipts(st4, request, current_token, limit)
        st6 == streams(st5, request, current_token)
    IN  [st6 EXCEPT !.result = replicate_result(st6.w)]

\* replicate, after current_token is read
replicate(w, request, current_token) ==
    LET limit == request.limit
        st0 == [w |-> w, calls |-> <<>>, err |-> "", result |-> 0]
        st1 == account_data(st0, request, current_token, limit)
        st2 == events(st1, request, current_token, limit)
        st3 == presence(st2, request, current_token, limit)
        st4 == typing(st3, request, current_token, limit)
        st5 == receipts(st4, request, current_token, limit)
        st6 == streams(st5, request, current_token)
    IN  [st6 EXCEPT !.result = replicate_result(st6.w)]

(***************************************************************************)
(* Requests the model sends.                                               *)
(***************************************************************************)
NoArgs == [n \in Names |-> <<>>]

\* since positions a request asks from
SinceValues == {0}

\* query parameters: none, one stream, the two pairs that share a store
\* query, every stream
ArgSets ==
    {NoArgs}
    \cup {[NoArgs EXCEPT ![n] = <<v>>] : n \in Names, v \in SinceValues}
    \cup {[NoArgs EXCEPT ![n[1]] = <<v>>, ![n[2]] = <<v>>] :
             n \in {<<"events", "backfill">>,
                    <<"user_account_data", "room_account_data">>},
             v \in SinceValues}
    \cup {[n \in Names |-> <<v>>] : v \in SinceValues}

\* "streams" parameters: absent, "-1", tokens, a short token, a non-integer
StreamsArgs ==
    { <<>>,
      << <<"-", "1">> >>,
      << streams_stream_id(<<0, 0, 0, 0, 0, 0>>) >>,
      << streams_stream_id(<<1, 0, 0, 0, 1, 0>>) >>,
      << streams_stream_id(<<0, 1, 0, 0, 0, -1>>) >>,
      << <<"0", "_", "0">> >>,
      << <<"0", "_", "x", "_", "0", "_", "0", "_", "0", "_", "0">> >> }

Limits == {1, 2}

AllArgs == [n \in Names |-> <<0>>]

\* every set of since parameters without "streams", and every "streams"
\* parameter alone and with every since parameter
Requests ==
    {[args |-> a, streams |-> <<>>, limit |-> l] : a \in ArgSets, l \in Limits}
    \cup {[args |-> a, streams |-> s, limit |-> l] :
             a \in {NoArgs, AllArgs}, s \in StreamsArgs \ {<<>>}, l \in Limits}

NoRequest == [args |-> NoArgs, streams |-> <<>>, limit |-> 0]

(***************************************************************************)
(* The replication actions.                                                *)
(***************************************************************************)
ReplInit ==
    /\ stream_pos = [f \in {"events", "presence", "typing", "receipts",
                            "account_data", "backfill"} |-> 0]
    /\ store_rows = [n \in Names |-> {}]
    /\ pc = [r \in Reqs |-> "new"]
    /\ req = [r \in Reqs |-> NoRequest]
    /\ tok = [r \in Reqs |-> <<0, 0, 0, 0, 0, 0>>]
    /\ writer = [r \in Reqs |-> NewWriter]
    /\ timer = [r \in Reqs |-> "none"]
    /\ woken = [r \in Reqs |-> FALSE]
    /\ calls = [r \in Reqs |-> <<>>]
    /\ passes = [r \in Reqs |-> 0]

\* the token field a stream name belongs to
SlotOf(name) ==
    IF name \in {"user_account_data", "room_account_data", "tag_account_data"}
    THEN "account_data" ELSE name

TotalRows(rows, names) ==
    LET RECURSIVE Sum(_)
        Sum(S) == IF S = {} THEN 0
                  ELSE LET n == CHOOSE x \in S : TRUE
                       IN  Cardinality(rows[n]) + Sum(S \ {n})
    IN  Sum(names)

\* requests blocked in wait_for_replication
InWait(r) == pc[r] \in {"token", "fetch", "waiting"}

\* the new-data signal reaching request slot 1 only
signal_reaches_first(r) == r = 1 /\ pc[r] \in {"fetch", "waiting"}

\* the new-data signal reaching only the requests that already sleep
signal_reaches_sleeping(r) == pc[r] = "waiting"

\* the requests the new-data signal reaches: those in wait_for_replication
\* whose pass has read its token, whether the pass still runs or the
\* request sleeps
signal_reaches(r) == pc[r] \in {"fetch", "waiting"}

\* A writer commits one row to a stream and fires the new-data signal, which
\* reaches every request in wait_for_replication.
Write(name) ==
    /\ TotalRows(store_rows, Names) < MaxWrites
    /\ LET slot == SlotOf(name)
           p == IF name = "backfill" THEN stream_pos[slot] - 1
                ELSE stream_pos[slot] + 1
       IN  /\ stream_pos' = [stream_pos EXCEPT ![slot] = p]
           /\ store_rows' = [store_rows EXCEPT ![name] = @ \cup {p}]
    /\ woken' = [r \in Reqs |-> IF signal_reaches(r) THEN TRUE ELSE woken[r]]
    /\ UNCHANGED <<pc, req, tok, writer, timer, calls, passes, client, hs_vars, token_io>>

\* _async_render_GET up to the call of wait_for_replication, which starts
\* the timeout timer
Arrive(r, request) ==
    /\ req' = [req EXCEPT ![r] = request]
    /\ writer' = [writer EXCEPT ![r] = NewWriter]
    /\ timer' = [timer EXCEPT ![r] = "scheduled"]
    /\ pc' = [pc EXCEPT ![r] = "token"]
    /\ UNCHANGED <<stream_pos, store_rows, tok, woken, calls, passes, hs_vars, token_io>>

render_GET(r, request) ==
    /\ pc[r] = "new"
    /\ Arrive(r, request)
    /\ UNCHANGED <<client, token_io>>

\* reading the token by taking the next events position, as a writer does,
\* where replicate reads the current one
ReadToken_taking_next_position(r) ==
    /\ pc[r] = "token"
    /\ stream_pos' = [stream_pos EXCEPT ![SlotOf("events")] = @ + 1]
    /\ tok' = [tok EXCEPT ![r] = current_replication_token]
    /\ woken' = [woken EXCEPT ![r] = FALSE]
    /\ pc' = [pc EXCEPT ![r] = "fetch"]
    /\ UNCHANGED <<store_rows, req, writer, timer, calls, passes,
                   client, hs_vars, token_io>>

\* replicate reads the current token; the waiter listens for signals from here
ReadToken(r) ==
    /\ pc[r] = "token"
    /\ tok' = [tok EXCEPT ![r] = current_replication_token]
    /\ woken' = [woken EXCEPT ![r] = FALSE]
    /\ pc' = [pc EXCEPT ![r] = "fetch"]
    /\ UNCHANGED <<stream_pos, store_rows, req, writer, timer, calls, passes,
                   client, hs_vars, token_io>>

\* wait_for_replication's verdict on a finished pass: "resolve" when
\* the pass produced rows or was the pass after the timeout, "again" when the
\* timeout fired during the pass, "wait" otherwise
verdict(result, timer_state) ==
    IF result > 0 \/ timer_state = "last" THEN "resolve"
    ELSE IF timer_state = "fired" THEN "again"
    ELSE "wait"

\* the rest of replicate, then wait_for_replication's verdict and, when the
\* wait resolves, writer.finish()
Fetch(r) ==
    /\ pc[r] = "fetch"
    /\ \E res \in {replicate(writer[r], req[r], tok[r])} :
       \E v \in {verdict(res.result, timer[r])} :
           /\ calls' = [calls EXCEPT ![r] = res.calls]
           /\ passes' = [passes EXCEPT ![r] = @ + 1]
           /\ IF res.err # ""
              THEN /\ writer' = [writer EXCEPT ![r] = res.w]
                   /\ pc' = [pc EXCEPT ![r] = "failed"]
                   /\ timer' = timer
              ELSE IF v = "resolve"
              THEN /\ writer' = [writer EXCEPT ![r] = finish(res.w)]
                   /\ pc' = [pc EXCEPT ![r] = "done"]
                   /\ timer' = [timer EXCEPT ![r] =
                                   IF @ = "scheduled" THEN "cancelled" ELSE @]
              ELSE IF v = "again"
              THEN /\ writer' = [writer EXCEPT ![r] = res.w]
                   /\ pc' = [pc EXCEPT ![r] = "token"]
                   /\ timer' = [timer EXCEPT ![r] = "last"]
              ELSE /\ writer' = [writer EXCEPT ![r] = res.w]
                   /\ pc' = [pc EXCEPT ![r] = "waiting"]
                   /\ timer' = timer
    /\ UNCHANGED <<stream_pos, store_rows, req, tok, woken, client, hs_vars, token_io>>

\* a waiter that was signalled runs its pass again
Wake(r) ==
    /\ pc[r] = "waiting"
    /\ woken[r]
    /\ pc' = [pc EXCEPT ![r] = "token"]
    /\ UNCHANGED <<stream_pos, store_rows, req, tok, writer, timer, woken,
                   calls, passes, client, hs_vars, token_io>>

\* the timeout elapses: a sleeping waiter runs one more pass, a waiter in
\* the middle of a pass runs one more after it
Timeout(r) ==
    /\ timer[r] = "scheduled"
    /\ InWait(r)
    /\ IF pc[r] = "waiting"
       THEN /\ pc' = [pc EXCEPT ![r] = "token"]
            /\ timer' = [timer EXCEPT ![r] = "last"]
       ELSE /\ pc' = pc
            /\ timer' = [timer EXCEPT ![r] = "fired"]
    /\ UNCHANGED <<stream_pos, store_rows, req, tok, writer, woken, calls, passes,
                   client, hs_vars, token_io>>

(***************************************************************************)
(* Reading a response, as scripts/tail-synapse.py reads it: a header row   *)
(* names the batch and says how many rows and columns follow.              *)
(***************************************************************************)
RECURSIVE parse_response(_)
parse_response(lines) ==
    IF Len(lines) = 0 THEN <<>>
    ELSE LET header == lines[1]
             rows == header[3]
             cols == header[4]
         IN  << [name |-> header[1], stream_id |-> header[2],
                 count |-> rows, field_count |-> cols,
                 fields |-> SubSeq(header, 5, 4 + cols),
                 rows |-> SubSeq(lines, 2, 1 + rows)] >>
             \o parse_response(SubSeq(lines, 2 + rows, Len(lines)))

\* the batches of a response that carry the given name
BatchesNamed(lines, name) ==
    SelectSeq(parse_response(lines), LAMBDA b : b.name = name)

\* the leading fields of a batch's rows
Positions(batch) == [i \in 1..Len(batch.rows) |-> batch.rows[i][1]]

(***************************************************************************)
(* The handler state after construction.                                   *)
(***************************************************************************)
Users == {"@a:red", "@b:red"}

HsInit ==
    /\ _streams_per_user = <<>>
    /\ _stop_timer_per_user = <<>>
    /\ delayed_calls = {}
    /\ now = 0
    /\ fired = [u \in Users |-> <<>>]
    /\ history = [u \in Users |-> <<>>]
    /\ suspended = [u \in Users |-> 0]

NoClient == [since0 |-> 0, got |-> <<>>, state |-> "idle"]

\* no token is being formatted
NoToken ==
    [token |-> <<>>, text |-> <<>>, parsed |-> [err |-> "", value |-> <<>>],
     at |-> "idle"]

Init == ReplInit /\ HsInit /\ client = NoClient /\ token_io = NoToken

(***************************************************************************)
(* One replication request, any parameters, against writers of every       *)
(* stream.                                                                 *)
(***************************************************************************)
Next ==
    \/ \E n \in Names : Write(n)
    \/ \E request \in Requests : render_GET(1, request)
    \/ ReadToken(1)
    \/ Fetch(1)
    \/ Wake(1)
    \/ Timeout(1)

Spec == Init /\ [][Next]_vars

(***************************************************************************)
(* Catch-up on events: a client asks for events=s with a limit and asks    *)
(* again from the new position of each events batch it gets, as the loop   *)
(* of scripts/tail-synapse.py does, until a response has no events batch.  *)
(***************************************************************************)
CatchUpStarts == {0, 1}

CatchUpLimits == {0, 1, 2}

CatchUpRequest(s, l) ==
    [args |-> [NoArgs EXCEPT !["events"] = <<s>>], streams |-> <<>>, limit |-> l]

StartCatchUp(s, l) ==
    /\ client.state = "idle"
    /\ pc[1] = "new"
    /\ Arrive(1, CatchUpRequest(s, l))
    /\ client' = [since0 |-> s, got |-> <<>>, state |-> "polling"]

FollowUp ==
    /\ client.state = "polling"
    /\ pc[1] = "done"
    /\ LET bs == BatchesNamed(writer[1].out, "events")
       IN  IF Len(bs) > 0
           THEN /\ Arrive(1, CatchUpRequest(bs[Len(bs)].stream_id, req[1].limit))
                /\ client' = [client EXCEPT !.got = @ \o Positions(bs[Len(bs)])]
           ELSE /\ client' = [client EXCEPT !.state = "caught_up"]
                /\ UNCHANGED <<repl_vars, hs_vars, token_io>>

NextCatchUp ==
    \/ Write("events")
    \/ \E s \in CatchUpStarts, l \in CatchUpLimits : StartCatchUp(s, l)
    \/ ReadToken(1)
    \/ Fetch(1)
    \/ Wake(1)
    \/ Timeout(1)
    \/ FollowUp

SpecCatchUp == Init /\ [][NextCatchUp]_vars

\* the events batches of the response the client holds and has not taken yet
CatchUpBatches ==
    IF client.state = "polling" /\ pc[1] = "done"
    THEN BatchesNamed(writer[1].out, "events") ELSE <<>>

\* every events position the client has received, in the order received
RECURSIVE ConcatPositions(_)
ConcatPositions(bs) ==
    IF Len(bs) = 0 THEN <<>> ELSE Positions(bs[1]) \o ConcatPositions(Tail(bs))

CatchUpDelivered == client.got \o ConcatPositions(CatchUpBatches)

\* each response: at most one events batch, of at most limit rows, ascending,
\* whose new position is the position of its last row
CatchUpBatchesOk ==
    /\ Len(CatchUpBatches) <= 1
    /\ \A i \in 1..Len(CatchUpBatches) :
          LET b == CatchUpBatches[i]
              ps == Positions(b)
          IN  /\ Len(ps) >= 1
              /\ Len(ps) <= req[1].limit
              /\ b.count = Len(ps)
              /\ \A j \in 1..(Len(ps) - 1) : ps[j] < ps[j + 1]
              /\ b.stream_id = ps[Len(ps)]

\* the client has received s+1, s+2, ... with no gap and no duplicate
CatchUpGapFree ==
    CatchUpDelivered = [i \in 1..Len(CatchUpDelivered) |-> client.since0 + i]

\* when the client stops, nothing up to the position its last pass saw is missing
CatchUpComplete ==
    client.state = "caught_up"
        => client.since0 + Len(CatchUpDelivered) >= Field(tok[1], "events")

\* C1 as stated: catch-up on events with limit L is gap-free and
\* duplicate-free, every response has at most L rows in ascending order with
\* new_position the position of its last row, and the responses together
\* deliver every position in s+1..N exactly once -- for any limit L.
C1_CatchUpAnyLimit ==
    CatchUpBatchesOk /\ CatchUpGapFree /\ CatchUpComplete

\* C1 amended: the same, for a limit L >= 1: with L = 0 every response is
\* empty and the client receives nothing.
C1_CatchUp ==
    /\ CatchUpBatchesOk
    /\ CatchUpGapFree
    /\ req[1].limit >= 1 => CatchUpComplete

\* C1 witness: a client with limit 1 needed two responses to receive
\* positions 1 and 2 and then stopped on an empty response
C1_Witness ==
    /\ client.state = "caught_up"
    /\ req[1].limit = 1
    /\ client.since0 = 0
    /\ client.got = <<1, 2>>

(***************************************************************************)
(* EventStreamHandler: started_stream, stopped_stream and the grace timer. *)
(* A dict is a function whose domain is its set of keys.  A delayed call   *)
(* is a record of the user it was scheduled for and the time it is due;    *)
(* the table holds a timer only while it is scheduled, so cancelling it    *)
(* never fails.                                                            *)
(***************************************************************************)
Put(d, k, v) == [x \in (DOMAIN d) \cup {k} |-> IF x = k THEN v ELSE d[x]]

Del(d, k) == [x \in (DOMAIN d) \ {k} |-> d[x]]

\* distributor.fire(signal, user)
Fire(signal, user) == fired' = [fired EXCEPT ![user] = Append(@, signal)]

Did(op, user) == history' = [history EXCEPT ![user] = Append(@, op)]

\* yield: the call is suspended until the signal is delivered
Yield(user) == suspended' = [suspended EXCEPT ![user] = @ + 1]

\* started_stream forgetting the timer without cancelling it
started_stream_without_cancel(user) ==
    /\ Len(history[user]) < MaxOps
    /\ Did("started_stream", user)
    /\ IF user \notin DOMAIN _streams_per_user
       THEN /\ _streams_per_user' = Put(_streams_per_user, user, 1)
            /\ IF user \in DOMAIN _stop_timer_per_user
               THEN /\ _stop_timer_per_user' = Del(_stop_timer_per_user, user)
                    /\ UNCHANGED <<fired, delayed_calls, suspended>>
               ELSE /\ Fire("started_user_eventstream", user)
                    /\ Yield(user)
                    /\ UNCHANGED <<_stop_timer_per_user, delayed_calls>>
       ELSE /\ _streams_per_user' =
                   [_streams_per_user EXCEPT ![user] = @ + 1]
            /\ UNCHANGED <<_stop_timer_per_user, delayed_calls, fired, suspended>>
    /\ UNCHANGED <<now, repl_vars, client, token_io>>

\* started_stream setting the count to zero before the yield, leaving the
\* increment for later
started_stream_zero_first(user) ==
    /\ Len(history[user]) < MaxOps
    /\ Did("started_stream", user)
    /\ IF user \notin DOMAIN _streams_per_user
       THEN /\ _streams_per_user' = Put(_streams_per_user, user, 0)
            /\ IF user \in DOMAIN _stop_timer_per_user
               THEN /\ delayed_calls' =
                           delayed_calls \ {_stop_timer_per_user[user]}
                    /\ _stop_timer_per_user' = Del(_stop_timer_per_user, user)
                    /\ UNCHANGED <<fired, suspended>>
               ELSE /\ Fire("started_user_eventstream", user)
                    /\ Yield(user)
                    /\ UNCHANGED <<_stop_timer_per_user, delayed_calls>>
       ELSE /\ _streams_per_user' =
                   [_streams_per_user EXCEPT ![user] = @ + 1]
            /\ UNCHANGED <<_stop_timer_per_user, delayed_calls, fired, suspended>>
    /\ UNCHANGED <<now, repl_vars, client, token_io>>

\* started_stream emitting the started signal on every first stream, a
\* pending grace timer or not
started_stream_always_signals(user) ==
    /\ Len(history[user]) < MaxOps
    /\ Did("started_stream", user)
    /\ IF user \notin DOMAIN _streams_per_user
       THEN /\ _streams_per_user' = Put(_streams_per_user, user, 1)
            /\ Fire("started_user_eventstream", user)
            /\ Yield(user)
            /\ IF user \in DOMAIN _stop_timer_per_user
               THEN /\ delayed_calls' =
                           delayed_calls \ {_stop_timer_per_user[user]}
                    /\ _stop_timer_per_user' = Del(_stop_timer_per_user, user)
               ELSE UNCHANGED <<_stop_timer_per_user, delayed_calls>>
       ELSE /\ _streams_per_user' =
                   [_streams_per_user EXCEPT ![user] = @ + 1]
            /\ UNCHANGED <<_stop_timer_per_user, delayed_calls, fired, suspended>>
    /\ UNCHANGED <<now, repl_vars, client, token_io>>

started_stream(user) ==
    /\ Len(history[user]) < MaxOps
    /\ Did("started_stream", user)
    /\ IF user \notin DOMAIN _streams_per_user
       THEN /\ _streams_per_user' = Put(_streams_per_user, user, 1)
            /\ IF user \in DOMAIN _stop_timer_per_user
               THEN /\ delayed_calls' =
                           delayed_calls \ {_stop_timer_per_user[user]}
                    /\ _stop_timer_per_user' = Del(_stop_timer_per_user, user)
                    /\ UNCHANGED <<fired, suspended>>
               ELSE /\ Fire("started_user_eventstream", user)
                    /\ Yield(user)
                    /\ UNCHANGED <<_stop_timer_per_user, delayed_calls>>
       ELSE /\ _streams_per_user' =
                   [_streams_per_user EXCEPT ![user] = @ + 1]
            /\ UNCHANGED <<_stop_timer_per_user, delayed_calls, fired, suspended>>
    /\ UNCHANGED <<now, repl_vars, client, token_io>>

\* stopped_stream recording a timer that the clock was never given
stopped_stream_without_call_later(user) ==
    /\ Len(history[user]) < MaxOps
    /\ user \in DOMAIN _streams_per_user
    /\ Did("stopped_stream", user)
    /\ IF _streams_per_user[user] - 1 = 0
       THEN LET call == [user |-> user, at |-> now + GraceDelay]
            IN  /\ _streams_per_user' = Del(_streams_per_user, user)
                /\ delayed_calls' = delayed_calls
                /\ _stop_timer_per_user' = Put(_stop_timer_per_user, user, call)
       ELSE /\ _streams_per_user' =
                   [_streams_per_user EXCEPT ![user] = @ - 1]
            /\ UNCHANGED <<_stop_timer_per_user, delayed_calls>>
    /\ UNCHANGED <<fired, suspended, now, repl_vars, client, token_io>>

\* stopped_stream leaving the user's count in the table when it reaches zero
stopped_stream_keeping_zero(user) ==
    /\ Len(history[user]) < MaxOps
    /\ user \in DOMAIN _streams_per_user
    /\ Did("stopped_stream", user)
    /\ IF _streams_per_user[user] - 1 = 0
       THEN LET call == [user |-> user, at |-> now + GraceDelay]
            IN  /\ _streams_per_user' =
                       [_streams_per_user EXCEPT ![user] = @ - 1]
                /\ delayed_calls' = delayed_calls \cup {call}
                /\ _stop_timer_per_user' = Put(_stop_timer_per_user, user, call)
       ELSE /\ _streams_per_user' =
                   [_streams_per_user EXCEPT ![user] = @ - 1]
            /\ UNCHANGED <<_stop_timer_per_user, delayed_calls>>
    /\ UNCHANGED <<fired, suspended, now, repl_vars, client, token_io>>

\* stopped_stream for a user without a stream raises KeyError
stopped_stream(user) ==
    /\ Len(history[user]) < MaxOps
    /\ user \in DOMAIN _streams_per_user
    /\ Did("stopped_stream", user)
    /\ IF _streams_per_user[user] - 1 = 0
       THEN LET call == [user |-> user, at |-> now + GraceDelay]
            IN  /\ _streams_per_user' = Del(_streams_per_user, user)
                /\ delayed_calls' = delayed_calls \cup {call}
                /\ _stop_timer_per_user' = Put(_stop_timer_per_user, user, call)
       ELSE /\ _streams_per_user' =
                   [_streams_per_user EXCEPT ![user] = @ - 1]
            /\ UNCHANGED <<_stop_timer_per_user, delayed_calls>>
    /\ UNCHANGED <<fired, suspended, now, repl_vars, client, token_io>>

\* _later leaving the fired timer in the table
_later_without_pop(call) ==
    /\ call \in delayed_calls
    /\ now >= call.at
    /\ Len(history[call.user]) < MaxOps
    /\ Did("_later", call.user)
    /\ delayed_calls' = delayed_calls \ {call}
    /\ Fire("stopped_user_eventstream", call.user)
    /\ UNCHANGED <<_streams_per_user, _stop_timer_per_user, suspended, now,
                   repl_vars, client, token_io>>

\* the clock runs a delayed call that is due
_later(call) ==
    /\ call \in delayed_calls
    /\ now >= call.at
    /\ Len(history[call.user]) < MaxOps
    /\ Did("_later", call.user)
    /\ delayed_calls' = delayed_calls \ {call}
    /\ _stop_timer_per_user' = Del(_stop_timer_per_user, call.user)
    /\ Fire("stopped_user_eventstream", call.user)
    /\ UNCHANGED <<_streams_per_user, suspended, now, repl_vars, client, token_io>>

\* the started signal is delivered and the suspended started_stream returns:
\* nothing follows the yield
started_stream_resumes(user) ==
    /\ suspended[user] > 0
    /\ suspended' = [suspended EXCEPT ![user] = @ - 1]
    /\ UNCHANGED <<_streams_per_user, _stop_timer_per_user, delayed_calls,
                   fired, history, now, repl_vars, client, token_io>>

\* time passes: a single unit, or a whole grace delay
Tick(d) ==
    /\ now + d <= MaxClock
    /\ d = 1 => (now % GraceDelay) < MaxDrift
    /\ now' = now + d
    /\ UNCHANGED <<_streams_per_user, _stop_timer_per_user, delayed_calls,
                   fired, history, suspended, repl_vars, client, token_io>>

NextStreams ==
    \/ \E u \in Users : started_stream(u)
    \/ \E u \in Users : stopped_stream(u)
    \/ \E u \in Users : started_stream_resumes(u)
    \/ \E c \in delayed_calls : _later(c)
    \/ \E d \in {1, GraceDelay} : Tick(d)

SpecStreams == Init /\ [][NextStreams]_vars

SeqHasPrefix(h, prefix) ==
    Len(h) >= Len(prefix) /\ SubSeq(h, 1, Len(prefix)) = prefix

\* C4: for a user starting in IDLE, started_stream; stopped_stream;
\* started_stream with the second start before the grace timer fires emits
\* exactly one started signal and no stopped signal, and as long as the user
\* does not stop again the cancelled timer emits nothing and is not scheduled.
C4_ReconnectInsideGrace ==
    \A u \in Users :
        ( /\ SeqHasPrefix(history[u],
                 <<"started_stream", "stopped_stream", "started_stream">>)
          /\ \A i \in 4..Len(history[u]) : history[u][i] # "stopped_stream" )
        => /\ fired[u] = <<"started_user_eventstream">>
           /\ \A c \in delayed_calls : c.user # u
           /\ u \notin DOMAIN _stop_timer_per_user

\* C4 witness: the user reconnected inside the window and the clock has
\* since passed the time the cancelled timer was due
C4_Witness ==
    \E u \in Users :
        /\ history[u] = <<"started_stream", "stopped_stream", "started_stream">>
        /\ fired[u] = <<"started_user_eventstream">>
        /\ now >= 2 * GraceDelay

\* C5: for a user starting in IDLE, started_stream; stopped_stream; the
\* grace timer fires; started_stream emits started, stopped, started, in this
\* order, and nothing else.
C5_ReconnectAfterGrace ==
    \A u \in Users :
        /\ history[u] = <<"started_stream", "stopped_stream", "_later">>
              => fired[u] = <<"started_user_eventstream",
                              "stopped_user_eventstream">>
        /\ history[u] = <<"started_stream", "stopped_stream", "_later",
                          "started_stream">>
              => fired[u] = <<"started_user_eventstream",
                              "stopped_user_eventstream",
                              "started_user_eventstream">>

\* C5 witness: the user reconnected after the grace timer fired
C5_Witness ==
    \E u \in Users :
        /\ history[u] = <<"started_stream", "stopped_stream", "_later",
                          "started_stream">>
        /\ u \in DOMAIN _streams_per_user

(***************************************************************************)
(* Properties of one replication request (Spec).                           *)
(***************************************************************************)
\* the "streams" parameter is present and is not "-1"
HasStreamsToken(request) ==
    Len(request.streams) = 1 /\ request.streams[1] # <<"-", "1">>

\* the "streams" parameter is "-1"
IsBootstrap(request) ==
    Len(request.streams) = 1 /\ request.streams[1] = <<"-", "1">>

\* the "streams" parameter is six integers joined by "_"
HasWellFormedToken(request) ==
    /\ HasStreamsToken(request)
    /\ LET pieces == split(request.streams[1], "_")
       IN  Len(pieces) = 6 /\ \A i \in 1..6 : IsInt(pieces[i])

RequestedToken(request) == ints(split(request.streams[1], "_"))

\* every since position of the request equals the position of its stream in
\* the given current token, and so does every slot of its streams token
CaughtUp(request, current_token) ==
    /\ \A n \in Names :
          Has(request, n)
              => parse_integer(request, n) = Field(current_token, SlotOf(n))
    /\ Len(request.streams) = 1 =>
          /\ HasWellFormedToken(request)
          /\ RequestedToken(request) = current_token

\* no stream was written since the last pass of the request read its token
NoWriteSincePass(r) == tok[r] = current_replication_token

\* C3: a request whose every requested position equals the current position,
\* with no write to move the positions before it is answered, is answered
\* with an empty response with no batches, and only after the timeout has
\* elapsed.
C3_NoOpCatchUp ==
    (pc[1] = "done" /\ CaughtUp(req[1], tok[1]) /\ NoWriteSincePass(1))
        => /\ Len(writer[1].out) = 0
           /\ writer[1].tail = "[]"
           /\ timer[1] = "last"

\* C3 witness: a request for events and a streams token, both at the current
\* position, has been answered
C3_Witness ==
    /\ pc[1] = "done"
    /\ CaughtUp(req[1], tok[1])
    /\ NoWriteSincePass(1)
    /\ Has(req[1], "events")
    /\ Len(req[1].streams) = 1
    /\ passes[1] >= 2

\* the rows a bootstrap request must get for a token
BootstrapRows(t) ==
    << <<"events", t[1]>>, <<"presence", t[2]>>, <<"typing", t[3]>>,
       <<"receipts", t[4]>>, <<"user_account_data", t[5]>>,
       <<"room_account_data", t[5]>>, <<"tag_account_data", t[5]>>,
       <<"backfill", t[6]>> >>

\* C6: a request with streams="-1" is answered, on its first pass, with one
\* streams batch that lists every stream name with the current position of
\* its token field, whatever its other parameters and the positions.
C6_Bootstrap ==
    IsBootstrap(req[1]) =>
        /\ pc[1] \notin {"waiting", "failed"}
        /\ pc[1] = "done" =>
              LET bs == BatchesNamed(writer[1].out, "streams")
              IN  /\ Len(bs) = 1
                  /\ bs[1].rows = BootstrapRows(tok[1])
                  /\ passes[1] = 1

\* C6 witness: a bootstrap request that also asks for every stream is
\* answered while the account data and backfill positions have moved
C6_Witness ==
    /\ IsBootstrap(req[1])
    /\ pc[1] = "done"
    /\ req[1].args = AllArgs
    /\ Field(tok[1], "account_data") = 1
    /\ Field(tok[1], "backfill") = -1

\* the names of the streams whose token field differs between two tokens
RECURSIVE DifferingRows(_, _, _)
DifferingRows(i, current, requested) ==
    IF i > 6 THEN <<>>
    ELSE (IF current[i] # requested[i]
          THEN [j \in 1..Len(STREAM_NAMES[i]) |-> <<STREAM_NAMES[i][j], current[i]>>]
          ELSE <<>>)
         \o DifferingRows(i + 1, current, requested)

\* the rows of the streams batches of a response
StreamsRows(lines) ==
    LET bs == BatchesNamed(lines, "streams")
    IN  IF Len(bs) = 0 THEN <<>> ELSE bs[1].rows

\* a token the server can have issued before the current one: no forward
\* slot ahead of the current position, the backfill slot not behind it
IssuedBefore(requested, current) ==
    /\ \A i \in 1..5 : requested[i] <= current[i]
    /\ requested[6] >= current[6]

\* C7: for a request with an encoded streams token the server issued, the
\* streams batch has the row (name, current position) for exactly the
\* streams whose token field differs from the requested one, backfill
\* included.
C7_StreamsReportsDiffering ==
    ( /\ pc[1] = "done"
      /\ HasWellFormedToken(req[1])
      /\ IssuedBefore(RequestedToken(req[1]), tok[1]) )
        => StreamsRows(writer[1].out) = DifferingRows(1, tok[1], RequestedToken(req[1]))

\* C10: a response has no batch for a stream the request carried no since
\* parameter for.
C10_UnrequestedSkipped ==
    \A n \in Names : ~Has(req[1], n) => Len(BatchesNamed(writer[1].out, n)) = 0

\* C10 witness: only events was requested and answered while backfill holds
\* a row, and only user account data while room account data holds a row
C10_Witness ==
    /\ pc[1] = "done"
    /\ \/ /\ req[1].args = [NoArgs EXCEPT !["events"] = <<0>>]
          /\ store_rows["backfill"] # {}
          /\ Len(BatchesNamed(writer[1].out, "events")) = 1
          /\ Field(tok[1], "backfill") = -1
       \/ /\ req[1].args = [NoArgs EXCEPT !["user_account_data"] = <<0>>]
          /\ store_rows["room_account_data"] # {}
          /\ Len(BatchesNamed(writer[1].out, "user_account_data")) = 1
          /\ Field(tok[1], "account_data") = 2

(***************************************************************************)
(* Completion of a request.  The reactor runs every callback that is       *)
(* ready and the clock fires every timer: each step of a request, and its  *)
(* timeout, is weakly fair.  Writers are under no obligation to write.     *)
(***************************************************************************)
LiveNames == {"events", "backfill", "tag_account_data"}

\* "streams" parameters: the bootstrap "-1", the token "0", and "0_x", whose
\* second component int() rejects
LiveStreams == { <<"-", "1">>, <<"0">>, <<"0", "_", "x">> }

\* requests: no stream, one stream, every stream, and one stream with each
\* "streams" parameter
LiveRequests ==
    {[args |-> a, streams |-> <<>>, limit |-> 1] :
        a \in {NoArgs, [NoArgs EXCEPT !["events"] = <<0>>], AllArgs}}
    \cup {[args |-> [NoArgs EXCEPT !["events"] = <<0>>], streams |-> <<s>>,
            limit |-> 1] : s \in LiveStreams}

NextLive ==
    \/ \E n \in LiveNames : Write(n)
    \/ \E request \in LiveRequests : render_GET(1, request)
    \/ ReadToken(1)
    \/ Fetch(1)
    \/ Wake(1)
    \/ Timeout(1)

SpecLive ==
    /\ Init
    /\ [][NextLive]_vars
    /\ WF_vars(ReadToken(1))
    /\ WF_vars(Fetch(1))
    /\ WF_vars(Wake(1))
    /\ WF_vars(Timeout(1))

\* the "streams" parameter has a component int() rejects
HasNonIntegerToken(request) ==
    /\ HasStreamsToken(request)
    /\ LET pieces == split(request.streams[1], "_")
       IN  \E i \in 1..Len(pieces) : ~IsInt(pieces[i])

MaxWakeWrites == 1

WakeNames == {"events", "receipts"}

\* the first request asks for events, every later one for events or for
\* receipts
WakeRequests(r) ==
    {[args |-> [NoArgs EXCEPT ![n] = <<0>>], streams |-> <<>>, limit |-> 1] :
        n \in IF r = 1 THEN {"events"} ELSE WakeNames}

NextWake ==
    \/ \E n \in WakeNames :
          TotalRows(store_rows, Names) < MaxWakeWrites /\ Write(n)
    \/ \E r \in Reqs :
          \/ \E request \in WakeRequests(r) :
                (\A q \in 1..(r - 1) : pc[q] # "new") /\ render_GET(r, request)
          \/ ReadToken(r)
          \/ Fetch(r)
          \/ Wake(r)
          \/ Timeout(r)

SpecWake == Init /\ [][NextWake]_vars

\* the rows a pass of the request would deliver if it ran now
Deliverable(r) == replicate(NewWriter, req[r], current_replication_token).result

\* C8: one new-data signal wakes every request that waits, whatever stream
\* it asked for; a woken request runs its own pass again; a pass run before
\* the timeout resolves the request when it produced rows and leaves it
\* waiting when it produced none.
C8_BroadcastWakeUp ==
    /\ [][stream_pos' # stream_pos =>
             \A r \in Reqs : pc[r] = "waiting" => woken'[r]]_vars
    /\ [][\A r \in Reqs :
             (pc[r] = "waiting" /\ pc'[r] # "waiting") => pc'[r] = "token"]_vars
    /\ [][\A r \in Reqs :
             (pc[r] = "fetch" /\ pc'[r] # "fetch" /\ timer[r] = "scheduled")
                 => IF writer'[r].total > 0
                    THEN pc'[r] = "done" /\ writer'[r].finished = 1
                    ELSE pc'[r] = "waiting" /\ writer'[r].finished = 0]_vars
    /\ [](\A r \in Reqs : (pc[r] = "waiting" /\ ~woken[r]) => ~ENABLED Wake(r))

\* C8 witness: two requests for different streams slept, one write woke
\* both, both ran a second pass; the one whose stream was written is
\* answered with the row and the other sleeps again
C8_Witness ==
    /\ req[1].args = [NoArgs EXCEPT !["events"] = <<0>>]
    /\ req[2].args = [NoArgs EXCEPT !["receipts"] = <<0>>]
    /\ TotalRows(store_rows, Names) = 1
    /\ pc[1] = "done" /\ passes[1] = 2 /\ timer[1] = "cancelled"
    /\ writer[1].total = 1
    /\ pc[2] = "waiting" /\ passes[2] = 2 /\ timer[2] = "scheduled"
    /\ ~woken[2]

SinceOrCurrent(request, name, current_token) ==
    IF Has(request, name) THEN parse_integer(request, name)
    ELSE Field(current_token, SlotOf(name))

\* a fetch was called with the request's since positions and with the
\* current position of its own token field as until
OwnSlotCall(c, request, current_token) ==
    CASE c[1] = "get_all_updated_account_data" ->
             /\ c[2] = SinceOrCurrent(request, "user_account_data", current_token)
             /\ c[3] = SinceOrCurrent(request, "room_account_data", current_token)
             /\ c[4] = Field(current_token, "account_data")
      [] c[1] = "get_all_updated_tags" ->
             /\ c[2] = parse_integer(request, "tag_account_data")
             /\ c[3] = Field(current_token, "account_data")
      [] c[1] = "get_all_new_events" ->
             /\ c[2] = SinceOrCurrent(request, "backfill", current_token)
             /\ c[3] = SinceOrCurrent(request, "events", current_token)
             /\ c[4] = Field(current_token, "backfill")
             /\ c[5] = Field(current_token, "events")
      [] c[1] = "get_all_presence_updates" ->
             /\ c[2] = parse_integer(request, "presence")
             /\ c[3] = Field(current_token, "presence")
      [] c[1] = "get_all_typing_updates" ->
             /\ c[2] = parse_integer(request, "typing")
             /\ c[3] = Field(current_token, "typing")
      [] c[1] = "get_all_updated_receipts" ->
             /\ c[2] = parse_integer(request, "receipts")
             /\ c[3] = Field(current_token, "receipts")

\* C11: every fetch of a pass is called with since equal to the position
\* the request supplied and until equal to the slot of its own stream in
\* the current token the pass read, never the slot of another stream.
C11_FetchBoundedByOwnSlot ==
    pc[1] # "fetch" =>
        \A i \in 1..Len(calls[1]) : OwnSlotCall(calls[1][i], req[1], tok[1])

\* the stream a fetch asks about has since = until: for the two fetches
\* that serve two streams, both have
EmptyRangeCall(c) ==
    CASE c[1] = "get_all_updated_account_data" -> c[2] = c[4] /\ c[3] = c[4]
      [] c[1] = "get_all_new_events" -> c[2] = c[4] /\ c[3] = c[5]
      [] OTHER -> c[2] = c[3]

\* C12: when the since position a request carries for a stream equals the
\* current position of the stream, the pass issues no fetch for it and
\* writes no batch for it.
C12_NoFetchWhenCaughtUp ==
    (pc[1] # "fetch" /\ passes[1] >= 1) =>
        /\ \A i \in 1..Len(calls[1]) : ~EmptyRangeCall(calls[1][i])
        /\ \A n \in Names :
              ( /\ Has(req[1], n)
                /\ parse_integer(req[1], n) = Field(tok[1], SlotOf(n)) )
                  => Len(BatchesNamed(writer[1].out, n)) = 0

\* C13: a request whose streams parameter is not "-1" and is not six
\* integers joined by "_" fails on its first pass, and no streams batch is
\* written for it.
C13_MalformedTokenRejected ==
    ( /\ HasStreamsToken(req[1])
      /\ ~HasWellFormedToken(req[1])
      /\ passes[1] >= 1 )
        => /\ pc[1] = "failed"
           /\ Len(BatchesNamed(writer[1].out, "streams")) = 0


(***************************************************************************)
(* The replication token as text: _ReplicationToken.__str__ writes it and  *)
(* _ReplicationToken.__new__ with one argument reads it back.              *)
(***************************************************************************)

\* the largest position of a token that is formatted and parsed back
MaxTokenPos == 11

\* the positions a token field takes: negative ones, zero, one digit and
\* several digits
TokenPositions == {-MaxTokenPos, -1, 0, 1, MaxTokenPos}

Tokens == [1..Len(TokenFields) -> TokenPositions]

\* _ReplicationToken.__new__: one argument is a text, split on "/" with
\* every piece read as an integer; otherwise the arguments are the fields.
\* int() raises ValueError on a piece that is no integer; a single piece is
\* passed to __new__ again, where an integer has no split (AttributeError);
\* the namedtuple refuses any other count but its own (TypeError)
_ReplicationToken(args) ==
    IF Len(args) = 1
    THEN LET pieces == split(args[1], "/")
         IN  IF \E i \in 1..Len(pieces) : ~IsInt(pieces[i])
             THEN [err |-> "ValueError", value |-> <<>>]
             ELSE IF Len(pieces) = 1
             THEN [err |-> "AttributeError", value |-> <<>>]
             ELSE IF Len(pieces) # Len(TokenFields)
             THEN [err |-> "TypeError", value |-> <<>>]
             ELSE [err |-> "", value |-> ints(pieces)]
    ELSE IF Len(args) # Len(TokenFields)
    THEN [err |-> "TypeError", value |-> <<>>]
    ELSE [err |-> "", value |-> args]

\* a caller holds a token
InitToken ==
    /\ ReplInit
    /\ HsInit
    /\ client = NoClient
    /\ \E T \in Tokens :
          token_io = [token |-> T, text |-> <<>>, parsed |-> NoToken.parsed,
                      at |-> "token"]

\* str(token)
FormatToken ==
    /\ token_io.at = "token"
    /\ token_io' = [token_io EXCEPT !.text = token_str(token_io.token),
                                    !.at = "text"]
    /\ UNCHANGED <<repl_vars, client, hs_vars>>

\* _ReplicationToken(text)
ParseToken ==
    /\ token_io.at = "text"
    /\ token_io' = [token_io EXCEPT !.parsed = _ReplicationToken(<<token_io.text>>),
                                    !.at = "parsed"]
    /\ UNCHANGED <<repl_vars, client, hs_vars>>

NextToken == FormatToken \/ ParseToken

SpecToken == InitToken /\ [][NextToken]_vars

\* C14: a token written with str() and read back with
\* _ReplicationToken(text) is the token it was: six integer positions,
\* negative ones included, in the same order
C14_TokenRoundTrip ==
    token_io.at = "parsed" =>
        /\ token_io.parsed.err = ""
        /\ token_io.parsed.value = token_io.token

\* a token with a negative backfill position and a position of several
\* digits has been written and read back
C14_Witness ==
    /\ token_io.at = "parsed"
    /\ token_io.token[Len(TokenFields)] < 0
    /\ token_io.token[1] = MaxTokenPos
    /\ Len(token_io.text) > 2 * Len(TokenFields)


(***************************************************************************)
(* The shape of the batches in a response.                                 *)
(***************************************************************************)

\* the batches written on the writer of request slot 1
Batches == parse_response(writer[1].out)

\* the field names test_events expects in the events header
test_events_fields == <<"position", "internal", "json">>

\* the field names test_streams expects in the streams header
test_streams_fields == <<"name", "position">>

\* C15: the header of an events batch carries the field names (position,
\* internal, json) and the header of a streams batch carries (name,
\* position), the names the tests assert
C15_HeaderFieldsAsTested ==
    \A i \in 1..Len(Batches) :
        /\ Batches[i].name = "events" => Batches[i].fields = test_events_fields
        /\ Batches[i].name = "streams" => Batches[i].fields = test_streams_fields


\* the rows of a response split into batches as their headers announce:
\* each header is (name, stream_id, count, field_count, field names...)
\* with count at least 1, and count rows of field_count fields follow it
WellFramed(lines) ==
    LET RECURSIVE from(_)
        from(i) ==
            IF i > Len(lines) THEN TRUE
            ELSE /\ Len(lines[i]) >= 4
                 /\ lines[i][3] >= 1
                 /\ Len(lines[i]) = 4 + lines[i][4]
                 /\ Len(lines) >= i + lines[i][3]
                 /\ \A j \in (i + 1)..(i + lines[i][3]) :
                        Len(lines[j]) = lines[i][4]
                 /\ from(i + 1 + lines[i][3])
    IN  from(1)

\* C16: every batch on the writer starts with a header row (name,
\* new_position, row_count, field_count, field names...) whose row_count is
\* at least 1 and is the number of data rows written right after it, whose
\* field_count is the number of field names and of fields in each row, and,
\* for every batch but streams, whose new_position is the leading field of
\* the batch's last row; a batch of zero rows is never written
C16_BatchHeader ==
    /\ WellFramed(writer[1].out)
    /\ \A i \in 1..Len(Batches) :
          LET b == Batches[i]
          IN  /\ b.count >= 1
              /\ Len(b.rows) = b.count
              /\ Len(b.fields) = b.field_count
              /\ \A j \in 1..Len(b.rows) : Len(b.rows[j]) = b.field_count
              /\ b.name # "streams" => b.stream_id = b.rows[b.count][1]

\* a finished response holds a batch of two rows followed by a streams batch
C16_Witness ==
    /\ pc[1] = "done"
    /\ \E i \in 1..Len(Batches) :
          /\ Batches[i].count = 2
          /\ Batches[i].name # "streams"
    /\ Len(BatchesNamed(writer[1].out, "streams")) = 1


\* the order in which one replicate pass writes its batches
BatchOrder ==
    << "user_account_data", "room_account_data", "tag_account_data",
       "events", "backfill", "presence", "typing", "receipts", "streams" >>

\* the place of a batch name in that order
OrderOf(name) == CHOOSE k \in 1..Len(BatchOrder) : BatchOrder[k] = name

\* C17: in every response, however many replicate passes ran on the
\* request's writer before it resolved, each batch name appears at most
\* once and the batches follow the order user_account_data,
\* room_account_data, tag_account_data, events, backfill, presence, typing,
\* receipts, streams
C17_FixedOrderOnePerName ==
    \A i \in 1..Len(Batches) : \A j \in 1..Len(Batches) :
        i < j => OrderOf(Batches[i].name) < OrderOf(Batches[j].name)

\* a response finished after several passes holds three batches or more,
\* the streams batch among them
C17_Witness ==
    /\ pc[1] = "done"
    /\ passes[1] >= 2
    /\ Len(Batches) >= 3
    /\ Len(BatchesNamed(writer[1].out, "streams")) = 1


(***************************************************************************)
(* What the endpoint leaves alone.                                         *)
(***************************************************************************)

\* the state of the requests being handled
request_vars == <<pc, req, tok, writer, timer, calls, passes>>

\* the state of the streams: current positions and stored rows
stream_vars == <<stream_pos, store_rows>>

\* C18: handling a replication request, through any number of replicate
\* passes, wake-ups and timeouts, leaves every stream's current position
\* and the stored rows unchanged; positions change only when a writer
\* commits a row
C18_EndpointReadOnly ==
    /\ [][request_vars' # request_vars => stream_vars' = stream_vars]_vars
    /\ [][stream_vars' # stream_vars => \E n \in Names : Write(n)]_vars

\* a request was answered after three passes or more, woken by a write and
\* ended by its timeout
C18_Witness ==
    /\ pc[1] = "done"
    /\ passes[1] >= 3
    /\ timer[1] = "last"
    /\ TotalRows(store_rows, Names) >= 1


(***************************************************************************)
(* The stream count of a user against the calls made for the user.         *)
(***************************************************************************)

\* the number of calls of an operation made so far for a user
CallsOf(op, user) ==
    Cardinality({i \in 1..Len(history[user]) : history[user][i] = op})

\* the streams a user has open: started_stream calls minus stopped_stream
\* calls
OpenStreams(user) ==
    CallsOf("started_stream", user) - CallsOf("stopped_stream", user)

\* what the handler holds for a user: the count and the timer, if any
HandlerEntry(user) ==
    << IF user \in DOMAIN _streams_per_user
       THEN <<_streams_per_user[user]>> ELSE <<>>,
       IF user \in DOMAIN _stop_timer_per_user
       THEN <<_stop_timer_per_user[user]>> ELSE <<>> >>

\* C19: for every user and every interleaving of started_stream and
\* stopped_stream calls, calls arriving while an earlier started_stream is
\* suspended on the started signal included, _streams_per_user[u] is the
\* number of started_stream calls minus the number of stopped_stream calls
\* made for u, u being absent when that number is 0; and a call for one
\* user never changes the count or the timer of another
C19_CountAccuracy ==
    /\ [](\A u \in Users :
            IF OpenStreams(u) = 0
            THEN u \notin DOMAIN _streams_per_user
            ELSE /\ u \in DOMAIN _streams_per_user
                 /\ _streams_per_user[u] = OpenStreams(u))
    /\ [][\A u \in Users :
            history'[u] = history[u] => HandlerEntry(u)' = HandlerEntry(u)]_vars

\* calls arrived for a user whose first started_stream is still suspended,
\* while another user has a stream open
C19_Witness ==
    \E u \in Users : \E v \in Users \ {u} :
        /\ suspended[u] >= 1
        /\ CallsOf("started_stream", u) = 2
        /\ CallsOf("stopped_stream", u) = 1
        /\ _streams_per_user[u] = 1
        /\ v \in DOMAIN _streams_per_user


(***************************************************************************)
(* The grace timer under a clock that runs: time passes and a delayed call *)
(* that is due is run.                                                     *)
(***************************************************************************)

\* a stopped_stream record leaves room to record the timer's _later, and the
\* clock can reach the time the timer is due
RoomForTimer(user) ==
    /\ Len(history[user]) + 1 < MaxOps
    /\ now + GraceDelay <= MaxClock

NextStreamsLive ==
    \/ \E u \in Users : started_stream(u)
    \/ \E u \in Users : RoomForTimer(u) /\ stopped_stream(u)
    \/ \E u \in Users : started_stream_resumes(u)
    \/ \E c \in delayed_calls : _later(c)
    \/ \E d \in {1, GraceDelay} : Tick(d)

\* the clock: time passes, and each user's delayed call is run once due
SpecStreamsLive ==
    /\ Init
    /\ [][NextStreamsLive]_vars
    /\ WF_vars(\E d \in {1, GraceDelay} : Tick(d))
    /\ \A u \in Users : WF_vars(\E c \in delayed_calls : c.user = u /\ _later(c))

\* the last operation recorded for a user, "" when there is none
LastOp(h) == IF Len(h) = 0 THEN "" ELSE h[Len(h)]

\* C20: whenever a user's stream count returns to 0, the grace timer is
\* eventually gone; while it is pending no signal is emitted for the user;
\* and unless a started_stream for the user cancelled it, it goes with
\* exactly one stopped_user_eventstream signal, after which the user is in
\* neither _streams_per_user nor _stop_timer_per_user
C20_GraceExpiryReported ==
    /\ \A u \in Users :
          (u \in DOMAIN _stop_timer_per_user) ~> (u \notin DOMAIN _stop_timer_per_user)
    /\ [][\A u \in Users :
            u \in DOMAIN _stop_timer_per_user =>
                IF u \in DOMAIN _stop_timer_per_user'
                THEN fired'[u] = fired[u]
                ELSE IF history'[u] # history[u] /\ LastOp(history'[u]) = "started_stream"
                THEN fired'[u] = fired[u]
                ELSE /\ fired'[u] = Append(fired[u], "stopped_user_eventstream")
                     /\ u \notin DOMAIN _streams_per_user'
                     /\ \A c \in delayed_calls' : c.user # u]_vars

\* a user's grace timer fired with no reconnect: the stopped signal is the
\* last one emitted and nothing is left of the user
C20_Witness ==
    \E u \in Users :
        /\ history[u] = <<"started_stream", "stopped_stream", "_later">>
        /\ LastOp(fired[u]) = "stopped_user_eventstream"
        /\ u \notin DOMAIN _streams_per_user
        /\ u \notin DOMAIN _stop_timer_per_user


(***************************************************************************)
(* The signals the presence subsystem receives for a user.                 *)
(***************************************************************************)

\* the signal at place i of a sequence that alternates started, stopped,
\* started, ..., beginning with started
AlternatingSignal(i) ==
    IF i % 2 = 1 THEN "started_user_eventstream" ELSE "stopped_user_eventstream"

\* C21: over any sequence of started_stream calls, stopped_stream calls and
\* grace-timer firings for a user, the signals emitted for the user
\* alternate started, stopped, started, ..., beginning with started; a
\* stopped signal is never emitted while the user's stream count is 1 or
\* more, and signals are emitted one at a time
C21_SignalsAlternate ==
    /\ [](\A u \in Users :
            \A i \in 1..Len(fired[u]) : fired[u][i] = AlternatingSignal(i))
    /\ [][\A u \in Users :
            fired'[u] # fired[u] =>
                /\ Len(fired'[u]) = Len(fired[u]) + 1
                /\ SeqHasPrefix(fired'[u], fired[u])
                /\ LastOp(fired'[u]) = "stopped_user_eventstream" =>
                       /\ u \notin DOMAIN _streams_per_user
                       /\ u \notin DOMAIN _streams_per_user']_vars

\* one user reconnected after the grace timer fired and got started,
\* stopped, started; another reconnected inside the grace window and got
\* the started signal alone
C21_Witness ==
    \E u \in Users : \E v \in Users \ {u} :
        /\ Len(fired[u]) = 3
        /\ CallsOf("_later", u) = 1
        /\ CallsOf("started_stream", v) = 2
        /\ CallsOf("stopped_stream", v) = 1
        /\ Len(fired[v]) = 1


(***************************************************************************)
(* The states of a user: IDLE, STREAMING, GRACE.                           *)
(***************************************************************************)

\* the delayed calls the clock holds for a user
ScheduledFor(user) == {c \in delayed_calls : c.user = user}

\* C22: in every reachable state no user is in both _streams_per_user and
\* _stop_timer_per_user, every count in _streams_per_user is at least 1,
\* and at most one grace timer is scheduled per user: the timer in the
\* table, which is never replaced or dropped while still scheduled
C22_OneStatePerUser ==
    \A u \in Users :
        /\ ~(u \in DOMAIN _streams_per_user /\ u \in DOMAIN _stop_timer_per_user)
        /\ u \in DOMAIN _streams_per_user => _streams_per_user[u] >= 1
        /\ Cardinality(ScheduledFor(u)) <= 1
        /\ ScheduledFor(u) =
               IF u \in DOMAIN _stop_timer_per_user
               THEN {_stop_timer_per_user[u]} ELSE {}

\* one user is in its second grace window, the first timer having been
\* cancelled, while another has two streams open
C22_Witness ==
    \E u \in Users : \E v \in Users \ {u} :
        /\ history[u] = <<"started_stream", "stopped_stream",
                          "started_stream", "stopped_stream">>
        /\ u \in DOMAIN _stop_timer_per_user
        /\ ScheduledFor(u) # {}
        /\ v \in DOMAIN _streams_per_user
        /\ _streams_per_user[v] = 2

====
